---------------------------- MODULE Spec2Model ----------------------------
(***************************************************************************)
(* A model of the OSRS VLM firemaking agent (src/osrs_vlm_agent):          *)
(*   window_manager.py   WindowManager   (region detection, persistence,   *)
(*                                        relative -> absolute mapping)    *)
(*   screen_capture.py   ScreenCapture.capture                             *)
(*   vision.py           VisionModel     (response parsing helpers)        *)
(*   skills.py           SkillLibrary    (find / click / make_fire / count)*)
(*   firemaking_agent.py FiremakingAgent (run, burn_inventory, stop)       *)
(*                                                                         *)
(* Text (window titles, perception responses) is a sequence of one-        *)
(* character strings, so that strip(), lower(), int() and the substring    *)
(* test are computed the way Python computes them.                         *)
(***************************************************************************)
EXTENDS Integers, Sequences, FiniteSets, TLC

(***************************************************************************)
(* Bounds of the model and constants of the program.                       *)
(***************************************************************************)
\* config.py:38
MAX_RETRIES == 3
\* the largest fixed iteration count (-n) a run is started with
MaxNumFires == 4
\* the most performTask() invocations explored in one run
MaxCalls == 5
\* the number of run() calls explored on one FiremakingAgent instance
MaxRuns == 2
\* relative coordinates passed to get_absolute_coords range over -MaxRel..MaxRel
MaxRel == 2
\* the number of window detections explored
MaxDetections == 2
\* jitter radii passed to _randomize_point range over 0..MaxRadius
MaxRadius == 3
\* the most windows in the tree a detection is called on
MaxWindows == 3

(***************************************************************************)
(* Optional values: Python's None, and a present value.                    *)
(***************************************************************************)
None == [none |-> TRUE]
Some(v) == [none |-> FALSE, val |-> v]

(***************************************************************************)
(* Python text operations on sequences of characters.                      *)
(***************************************************************************)
Upper == <<"A","B","C","D","E","F","G","H","I","J","K","L","M",
           "N","O","P","Q","R","S","T","U","V","W","X","Y","Z">>
Lower == <<"a","b","c","d","e","f","g","h","i","j","k","l","m",
           "n","o","p","q","r","s","t","u","v","w","x","y","z">>
Digits == <<"0","1","2","3","4","5","6","7","8","9">>
Whitespace == {" ", "\t", "\n"}

IsDigit(c) == \E i \in 1..Len(Digits) : Digits[i] = c
DigitVal(c) == (CHOOSE i \in 1..Len(Digits) : Digits[i] = c) - 1

\* str.lower() on one character
lower_char(c) ==
    IF \E i \in 1..Len(Upper) : Upper[i] = c
    THEN Lower[CHOOSE i \in 1..Len(Upper) : Upper[i] = c]
    ELSE c

\* str.lower()
py_lower(s) == [i \in 1..Len(s) |-> lower_char(s[i])]

\* `sub in s` for strings
py_contains(sub, s) ==
    \E k \in 0..(Len(s) - Len(sub)) :
        \A j \in 1..Len(sub) : s[k + j] = sub[j]

RECURSIVE py_lstrip(_)
py_lstrip(s) ==
    IF s # <<>> /\ Head(s) \in Whitespace THEN py_lstrip(Tail(s)) ELSE s

RECURSIVE py_rstrip(_)
py_rstrip(s) ==
    IF s # <<>> /\ s[Len(s)] \in Whitespace
    THEN py_rstrip(SubSeq(s, 1, Len(s) - 1))
    ELSE s

\* str.strip()
py_strip(s) == py_rstrip(py_lstrip(s))

RECURSIVE digits_value(_)
digits_value(s) ==
    IF s = <<>> THEN 0
    ELSE 10 * digits_value(SubSeq(s, 1, Len(s) - 1)) + DigitVal(s[Len(s)])

AllDigits(s) == s # <<>> /\ \A i \in 1..Len(s) : IsDigit(s[i])

\* int(text): [ok |-> TRUE, val |-> n], or [ok |-> FALSE] for a ValueError
py_int(text) ==
    LET s == py_strip(text) IN
    IF s # <<>> /\ Head(s) \in {"-", "+"}
    THEN IF AllDigits(Tail(s))
         THEN [ok |-> TRUE,
               val |-> IF Head(s) = "-" THEN 0 - digits_value(Tail(s))
                                        ELSE digits_value(Tail(s))]
         ELSE [ok |-> FALSE, val |-> 0]
    ELSE IF AllDigits(s)
         THEN [ok |-> TRUE, val |-> digits_value(s)]
         ELSE [ok |-> FALSE, val |-> 0]

\* str(n) for n >= 0
RECURSIVE py_str(_)
py_str(n) ==
    IF n < 10 THEN <<Digits[n + 1]>>
    ELSE py_str(n \div 10) \o <<Digits[(n % 10) + 1]>>

(***************************************************************************)
(* json.dump / json.load of the values a Region holds.                     *)
(***************************************************************************)
\* the JSON text of an int
json_int(n) == IF n < 0 THEN <<"-">> \o py_str(0 - n) ELSE py_str(n)

\* the JSON text of one character of a str
json_escape_char(c) ==
    IF c = "\"" THEN <<"\\", "\"">>
    ELSE IF c = "\\" THEN <<"\\", "\\">>
    ELSE IF c = "\n" THEN <<"\\", "n">>
    ELSE IF c = "\t" THEN <<"\\", "t">>
    ELSE <<c>>

RECURSIVE json_escape(_)
json_escape(s) ==
    IF s = <<>> THEN <<>> ELSE json_escape_char(Head(s)) \o json_escape(Tail(s))

\* a str written between quotes with nothing escaped
json_string_raw(s) == <<"\"">> \o s \o <<"\"">>

\* the JSON text of a str
json_string(s) == <<"\"">> \o json_escape(s) \o <<"\"">>

\* the int a JSON number text stands for: [ok, val]
json_parse_int(text) ==
    IF text # <<>> /\ Head(text) = "-"
    THEN IF AllDigits(Tail(text))
         THEN [ok |-> TRUE, val |-> 0 - digits_value(Tail(text))]
         ELSE [ok |-> FALSE, val |-> 0]
    ELSE IF AllDigits(text)
         THEN [ok |-> TRUE, val |-> digits_value(text)]
         ELSE [ok |-> FALSE, val |-> 0]

\* the characters between the quotes of a JSON string text: [ok, val]
RECURSIVE json_unescape(_)
json_unescape(body) ==
    IF body = <<>> THEN [ok |-> TRUE, val |-> <<>>]
    ELSE IF Head(body) \in {"\"", "\n", "\t"} THEN [ok |-> FALSE, val |-> <<>>]
    ELSE IF Head(body) = "\\"
    THEN IF Len(body) < 2 \/ body[2] \notin {"\"", "\\", "n", "t"}
         THEN [ok |-> FALSE, val |-> <<>>]
         ELSE LET rest == json_unescape(SubSeq(body, 3, Len(body)))
                  c == IF body[2] = "n" THEN "\n"
                       ELSE IF body[2] = "t" THEN "\t" ELSE body[2]
              IN [ok |-> rest.ok, val |-> <<c>> \o rest.val]
    ELSE LET rest == json_unescape(Tail(body))
         IN [ok |-> rest.ok, val |-> <<Head(body)>> \o rest.val]

\* the str a JSON string text stands for: [ok, val]
json_parse_string(text) ==
    IF Len(text) < 2 \/ Head(text) # "\"" \/ text[Len(text)] # "\""
    THEN [ok |-> FALSE, val |-> <<>>]
    ELSE json_unescape(SubSeq(text, 2, Len(text) - 1))


(***************************************************************************)
(* State.                                                                  *)
(***************************************************************************)
VARIABLES
    \* WindowManager
    window_config,      \* self.window_config: None or a Region
    config_file,        \* the file config.WINDOW_CONFIG_FILE on disk
    windows,            \* the X window tree, in the order _search_windows visits it
    detections,         \* how many times find_runelite_window() has run
    map_call,           \* the last get_absolute_coords call: its arguments and outcome
    persisted,          \* history: the Region save_config last wrote, and the one
                        \* it had written before the present locator was constructed
    \* a helper called on its own
    helper_call,        \* the last such call: its name, arguments and result
    \* VisionModel / SkillLibrary
    client,             \* vision_model.client is set (a provider is available)
    inventory_start_x,  \* SkillLibrary.inventory_start_x: None or a number
    inventory_start_y,  \* SkillLibrary.inventory_start_y
    \* FiremakingAgent
    running,            \* self.running
    fires_made,         \* self.fires_made
    failures,           \* self.failures
    \* the control position inside run() and its locals
    pc,                 \* where run() stands
    num_fires,          \* run()'s argument: None (burn the inventory) or Some(n)
    i,                  \* the index of "for i in range(num_fires)"
    logs_count,         \* burn_inventory's logs_count
    slot1,              \* use_item_on_item's slot1
    slot2,              \* use_item_on_item's slot2
    success,            \* what make_fire() / make_one_fire() returned
    trace,              \* what the current make_fire() invocation did so far, in order
    \* the caller
    run_limit,          \* how many times the caller calls run() on the instance
    \* history of the current run, kept to state the properties
    hist

wm_vars == <<window_config, config_file, windows, detections, map_call,
            persisted>>
skill_vars == <<client, inventory_start_x, inventory_start_y>>
agent_vars == <<running, fires_made, failures, pc, num_fires, i, logs_count,
                slot1, slot2, success, trace, run_limit, hist>>
helper_vars == <<helper_call>>
vars == <<wm_vars, skill_vars, helper_vars, agent_vars>>

(***************************************************************************)
(* window_manager.py                                                       *)
(***************************************************************************)
Region(x, y, w, h, title) ==
    [none |-> FALSE, x |-> x, y |-> y, width |-> w, height |-> h, title |-> title]

\* config.GAME_NAME = "RuneLite"
GAME_NAME == <<"R","u","n","e","L","i","t","e">>

\* WindowManager._get_window_geometry: None when the X calls raise, otherwise
\* the decoration offsets as position and the window's own size
_get_window_geometry(window) ==
    IF ~window.geo_ok THEN None
    ELSE LET min0(a) == IF a < 0 THEN a ELSE 0
             abs(a) == IF a < 0 THEN 0 - a ELSE a
         IN [none |-> FALSE,
             x |-> abs(min0(window.coords_x)),
             y |-> abs(min0(window.coords_y)),
             width |-> window.width,
             height |-> window.height]

\* the test of one window in WindowManager._search_windows
window_matches(window, name_filter) ==
    /\ window.title # <<>>
    /\ py_contains(py_lower(name_filter), py_lower(window.title))
    /\ ~_get_window_geometry(window).none
    /\ _get_window_geometry(window).width > 0
    /\ _get_window_geometry(window).height > 0

\* WindowManager._search_windows: the indices of the matching windows, in
\* the order of the traversal
RECURSIVE _search_windows(_, _, _)
_search_windows(ws, name_filter, k) ==
    IF k > Len(ws) THEN <<>>
    ELSE (IF window_matches(ws[k], name_filter) THEN <<k>> ELSE <<>>)
         \o _search_windows(ws, name_filter, k + 1)

window_area(ws, k) == ws[k].width * ws[k].height

\* the first match instead of the largest
first_window(ws, results) == results[1]

\* max(results, key=area): Python returns the first of the largest
largest_window(ws, results) ==
    results[CHOOSE j \in 1..Len(results) :
                /\ \A m \in 1..Len(results) :
                       window_area(ws, results[m]) <= window_area(ws, results[j])
                /\ \A m \in 1..(j - 1) :
                       window_area(ws, results[m]) < window_area(ws, results[j])]

\* WindowManager.find_runelite_window
find_runelite_window(ws) ==
    LET results == _search_windows(ws, GAME_NAME, 1) IN
    IF results = <<>> THEN None
    ELSE LET w == ws[largest_window(ws, results)]
             geo == _get_window_geometry(w)
         IN Region(geo.x, geo.y, geo.width, geo.height, w.title)

FileAbsent == [kind |-> "absent"]
FileCorrupt == [kind |-> "corrupt"]
FileOf(data) == [kind |-> "json", data |-> data]

\* json.dump(self.window_config, f, indent=2): the text of each member
json_dump(cfg) ==
    [x |-> json_int(cfg.x), y |-> json_int(cfg.y),
     width |-> json_int(cfg.width), height |-> json_int(cfg.height),
     title |-> json_string(cfg.title)]

\* json.load(f): None when a member does not parse (JSONDecodeError)
json_load(data) ==
    LET x == json_parse_int(data.x)
        y == json_parse_int(data.y)
        w == json_parse_int(data.width)
        h == json_parse_int(data.height)
        title == json_parse_string(data.title)
    IN IF x.ok /\ y.ok /\ w.ok /\ h.ok /\ title.ok
       THEN Region(x.val, y.val, w.val, h.val, title.val)
       ELSE None

\* WindowManager.save_config: the file after saving `cfg`
save_config(cfg, file) == IF cfg.none THEN file ELSE FileOf(json_dump(cfg))

\* load_or_detect trying the screen before the file
detect_or_load(file, ws) ==
    LET found == find_runelite_window(ws) IN
    IF ~found.none
    THEN [window_config |-> found, config_file |-> save_config(found, file),
          detections |-> 1]
    ELSE IF file.kind = "json" /\ ~json_load(file.data).none
    THEN [window_config |-> json_load(file.data), config_file |-> file,
          detections |-> 1]
    ELSE [window_config |-> None, config_file |-> file, detections |-> 1]

\* WindowManager.load_or_detect: the window_config, the file and the number
\* of detections it leaves
load_or_detect(file, ws) ==
    IF file.kind = "json" /\ ~json_load(file.data).none
    THEN [window_config |-> json_load(file.data), config_file |-> file,
          detections |-> 0]
    ELSE LET found == find_runelite_window(ws) IN
         [window_config |-> found,
          config_file |-> save_config(found, file),
          detections |-> 1]

\* the record of a call: its name, its arguments and its result
HelperCall(fn, args, result) ==
    Some([fn |-> fn, args |-> args, result |-> result])

\* the record of a construction or refresh: the file and the screen it
\* started from, and the region, file and number of detections it left
LocatorCall(fn, file, ws, made) ==
    HelperCall(fn, [file |-> file, windows |-> ws], made)

\* the history after a call of save_config with `cfg`
Persisted(cfg, saved, prior) ==
    [saved |-> IF cfg.none THEN saved ELSE cfg, prior |-> prior]

\* WindowManager.is_ready
is_ready(cfg) == ~cfg.none

Coord(x, y) == [raised |-> FALSE, x |-> x, y |-> y]
ValueError == [raised |-> TRUE, x |-> 0, y |-> 0]

\* get_absolute_coords with the relative point clamped into the region
get_absolute_coords_clamped(cfg, relative_x, relative_y) ==
    IF cfg.none THEN ValueError
    ELSE LET clamp(v, hi) == IF v < 0 THEN 0 ELSE IF v > hi THEN hi ELSE v
         IN Coord(cfg.x + clamp(relative_x, cfg.width),
                  cfg.y + clamp(relative_y, cfg.height))

\* WindowManager.get_absolute_coords
get_absolute_coords(cfg, relative_x, relative_y) ==
    IF cfg.none THEN ValueError
    ELSE Coord(cfg.x + relative_x, cfg.y + relative_y)

\* WindowManager.get_region
get_region(cfg) ==
    IF cfg.none THEN None
    ELSE [none |-> FALSE, left |-> cfg.x, top |-> cfg.y,
          width |-> cfg.width, height |-> cfg.height]


(***************************************************************************)
(* action_executor.py                                                      *)
(***************************************************************************)
\* the offsets random.randint(-radius - 1, radius + 1) may return
jitter_wide(radius) == (0 - radius - 1)..(radius + 1)

\* the offsets random.randint(-radius, radius) may return
jitter(radius) == (0 - radius)..radius

\* ActionExecutor._randomize_point: the points it may return
_randomize_point(x, y, radius) ==
    {[x |-> x + offset_x, y |-> y + offset_y] :
        offset_x \in jitter(radius), offset_y \in jitter(radius)}

(***************************************************************************)
(* screen_capture.py                                                       *)
(***************************************************************************)
\* ScreenCapture.capture: TRUE for an image, FALSE for None. grab_ok is
\* whether mss grabbed the region without raising.
capture(cfg, grab_ok) == is_ready(cfg) /\ grab_ok

(***************************************************************************)
(* vision.py.  A response is None or Some(text).                           *)
(***************************************************************************)
\* Python truthiness of an Optional[str]
truthy(response) == ~response.none /\ response.val # <<>>

\* VisionModel.analyze_screenshot: `answer` is what the provider call
\* returns (None when it raises)
analyze_screenshot(cl, answer) == IF ~cl THEN None ELSE answer

\* find_tinderbox returning whatever integer the response holds
find_tinderbox_signed(response) ==
    IF truthy(response)
    THEN LET r == py_int(response.val) IN
         IF r.ok THEN Some(r.val) ELSE None
    ELSE None

\* VisionModel.find_tinderbox
find_tinderbox(response) ==
    IF truthy(response)
    THEN LET r == py_int(response.val) IN
         IF r.ok THEN (IF r.val >= 0 THEN Some(r.val) ELSE None)
         ELSE None
    ELSE None

\* VisionModel.find_logs
find_logs(response) ==
    IF truthy(response)
    THEN LET r == py_int(response.val) IN
         IF r.ok THEN (IF r.val >= 0 THEN Some(r.val) ELSE None)
         ELSE None
    ELSE None

\* verify_fire_made looking for 'yes' in the response as written
verify_fire_made_exact(response) ==
    IF truthy(response)
    THEN py_contains(<<"y","e","s">>, response.val)
    ELSE FALSE

\* VisionModel.verify_fire_made
verify_fire_made(response) ==
    IF truthy(response)
    THEN py_contains(<<"y","e","s">>, py_lower(response.val))
    ELSE FALSE

(***************************************************************************)
(* skills.py                                                               *)
(***************************************************************************)
\* skills.py:22
slot_width == 42
\* skills.py:23
slot_height == 36
\* skills.py:24
slots_per_row == 4
\* skills.py:38: the inventory's slots are numbered 0-27
LastSlot == 27

TINDERBOX == <<"t","i","n","d","e","r","b","o","x">>
LOGS == <<"l","o","g","s">>

\* get_slot_center counting the slots down the columns
get_slot_center_by_column(start_x, start_y, slot) ==
    IF start_x.none \/ start_y.none THEN ValueError
    ELSE LET row == slot % slots_per_row
             col == slot \div slots_per_row
         IN Coord(start_x.val + (col * slot_width) + (slot_width \div 2),
                  start_y.val + (row * slot_height) + (slot_height \div 2))

\* SkillLibrary.get_slot_center
get_slot_center(start_x, start_y, slot) ==
    IF start_x.none \/ start_y.none THEN ValueError
    ELSE LET row == slot \div slots_per_row
             col == slot % slots_per_row
         IN Coord(start_x.val + (col * slot_width) + (slot_width \div 2),
                  start_y.val + (row * slot_height) + (slot_height \div 2))

\* SkillLibrary.click_inventory_slot with ActionExecutor.click(relative=True):
\* what it returns, and whether the click reached the input layer
click_inventory_slot(start_x, start_y, cfg, slot) ==
    LET c == get_slot_center(start_x, start_y, slot) IN
    IF c.raised THEN [returned |-> FALSE, issued |-> FALSE]
    ELSE IF get_absolute_coords(cfg, c.x, c.y).raised
         THEN [returned |-> FALSE, issued |-> FALSE]
         ELSE [returned |-> TRUE, issued |-> TRUE]

\* the generic branch of SkillLibrary.find_item_visual (lines 104-109)
find_generic(response) ==
    IF truthy(response)
    THEN LET r == py_int(response.val) IN
         IF r.ok THEN (IF r.val # 0 /\ r.val >= 0 THEN Some(r.val) ELSE None)
         ELSE None
    ELSE None

\* SkillLibrary.find_item_visual: shot is the capture's outcome, response
\* what analyze_screenshot returned
find_item_visual(item_name, shot, response) ==
    IF ~shot THEN None
    ELSE IF py_lower(item_name) = TINDERBOX THEN find_tinderbox(response)
    ELSE IF py_contains(<<"l","o","g">>, py_lower(item_name)) THEN find_logs(response)
    ELSE find_generic(response)

\* SkillLibrary.count_logs_in_inventory
count_logs_in_inventory(shot, response) ==
    IF ~shot THEN 0
    ELSE IF truthy(response)
         THEN LET r == py_int(response.val) IN IF r.ok THEN r.val ELSE 0
         ELSE 0

(***************************************************************************)
(* The skill operations as their caller sees them: each either returns a   *)
(* value or raises.  Exceptions start where the source raises them         *)
(* (int() on text that is no number, get_slot_center on an uncalibrated    *)
(* grid, get_absolute_coords on a region that is not ready, the input      *)
(* layer) and stop where the source has a try/except around them.          *)
(***************************************************************************)
Returned(v) == [raised |-> FALSE, value |-> v]
Raise == [raised |-> TRUE, value |-> None]

\* try: body / except Exception (or a bare except): return sentinel
except_Exception(body, sentinel) ==
    IF body.raised THEN Returned(sentinel) ELSE body

\* int(response.strip())
int_call(text) ==
    LET r == py_int(text) IN IF r.ok THEN Returned(r.val) ELSE Raise

\* vision.py lines 184-192 and 203-211: find_tinderbox / find_logs
find_named_outcome(response) ==
    IF truthy(response)
    THEN except_Exception(
             LET slot == int_call(response.val) IN
             IF slot.raised THEN Raise
             ELSE Returned(IF slot.value >= 0 THEN Some(slot.value) ELSE None),
             None)
    ELSE Returned(None)

\* skills.py lines 104-109: the generic branch
find_generic_outcome(response) ==
    except_Exception(
        LET slot == IF truthy(response) THEN int_call(response.val)
                    ELSE Returned(0)
        IN IF slot.raised THEN Raise
           ELSE Returned(IF truthy(response) /\ slot.value # 0 /\ slot.value >= 0
                         THEN Some(slot.value) ELSE None),
        None)

\* SkillLibrary.find_item_visual
find_item_visual_outcome(item_name, shot, response) ==
    IF ~shot THEN Returned(None)
    ELSE IF py_lower(item_name) = TINDERBOX THEN find_named_outcome(response)
    ELSE IF py_contains(<<"l","o","g">>, py_lower(item_name))
    THEN find_named_outcome(response)
    ELSE find_generic_outcome(response)

\* ActionExecutor.click(x, y, relative=True): gui_ok is whether pyautogui
\* moved and clicked without raising
click_outcome(cfg, x, y, gui_ok) ==
    IF get_absolute_coords(cfg, x, y).raised THEN Raise
    ELSE except_Exception(IF gui_ok THEN Returned(None) ELSE Raise, None)

\* SkillLibrary.click_inventory_slot
click_inventory_slot_outcome(start_x, start_y, cfg, slot, gui_ok) ==
    except_Exception(
        LET c == get_slot_center(start_x, start_y, slot) IN
        IF c.raised THEN Raise
        ELSE IF click_outcome(cfg, c.x, c.y, gui_ok).raised THEN Raise
        ELSE Returned(TRUE),
        FALSE)

\* SkillLibrary.use_item_on_item: found1, found2 are the outcomes of the
\* two find_item_visual calls
use_item_on_item_outcome(found1, found2, start_x, start_y, cfg, gui_ok) ==
    IF found1.raised \/ found2.raised THEN Raise
    ELSE IF found1.value.none \/ found2.value.none THEN Returned(FALSE)
    ELSE IF click_inventory_slot_outcome(start_x, start_y, cfg,
                                         found1.value.val, gui_ok).raised
    THEN Raise
    ELSE IF click_inventory_slot_outcome(start_x, start_y, cfg,
                                         found2.value.val, gui_ok).raised
    THEN Raise
    ELSE Returned(TRUE)

\* SkillLibrary.make_fire: used is the outcome of use_item_on_item, shot
\* and response those of the verification
make_fire_outcome(used, shot, response) ==
    IF used.raised THEN Raise
    ELSE IF ~used.value THEN Returned(FALSE)
    ELSE IF shot THEN Returned(verify_fire_made(response))
    ELSE Returned(FALSE)

\* SkillLibrary.count_logs_in_inventory
count_logs_in_inventory_outcome(shot, response) ==
    IF ~shot THEN Returned(0)
    ELSE except_Exception(
             IF truthy(response) THEN int_call(response.val) ELSE Returned(0),
             0)

(***************************************************************************)
(* What the collaborators may answer.                                      *)
(***************************************************************************)

\* what the provider may answer when asked for the tinderbox, for the logs
TinderboxAnswers == {None, Some(<<"3">>), Some(<<"-","1">>), Some(<<"a","b","c">>)}
LogsAnswers == {None, Some(<<"7">>), Some(<<"-","1">>), Some(<<>>)}
\* ... when asked for the count, `left` being the logs really left: the
\* right number (alone or with white space around it), zero, a negative
\* number, text that is no number, nothing
CountAnswers(left) ==
    {None, Some(<<>>), Some(<<"a","b","c">>), Some(<<"-","1">>), Some(<<"0">>),
     Some(py_str(left)), Some(<<" ">> \o py_str(left) \o <<"\n">>)}
\* ... when asked whether a fire burns
VerifyAnswers == {None, Some(<<"y","e","s">>), Some(<<"Y","e","s",".">>), Some(<<"n","o">>)}

(***************************************************************************)
(* firemaking_agent.py.  run() is followed step by step: one action per    *)
(* loop test and per blocking call, so that stop() and a KeyboardInterrupt *)
(* can arrive between any two of them.                                     *)
(***************************************************************************)
\* the positions at which a make_fire() invocation is in flight
InFlight == {"find1", "find2", "click1", "click2", "verify", "tally"}

\* the history record of a run that is starting
NewHist(runs, entered) ==
    [runs |-> runs,                 \* run() calls so far on this instance
     entered |-> entered,           \* initialize() passed: the run is Running
     start_fires |-> fires_made,    \* fires_made when run() was called
     start_failures |-> failures,   \* failures when run() was called
     calls |-> 0,                   \* make_fire() invocations started
     queries |-> 0,                 \* count_logs_in_inventory() calls made
     tallies |-> 0,                 \* invocations whose outcome was counted
     consec |-> 0,                  \* failed outcomes since the last success
     counts_true |-> TRUE,          \* every count so far was the logs left
     late_calls |-> 0,              \* invocations started after a cancellation
     stop_at |-> "none",            \* when stop() was called
     interrupt_at |-> "none",       \* when the KeyboardInterrupt arrived
     stop_reason |-> "none",        \* which exit ended the loop
     capped |-> TRUE]               \* the run is followed for MaxCalls
                                    \* invocations and no further; when
                                    \* FALSE it is followed without end, and
                                    \* the counts stay at MaxCalls once there

\* n + 1, as far as the counts are followed
count_up(n) == IF hist.capped \/ n < MaxCalls THEN n + 1 ELSE n

\* when a cancellation arrives: during a make_fire() or between two
Moment(p) == IF p \in InFlight THEN "in_flight" ELSE "between"

\* the logs left in the inventory: it held MaxCalls logs when the run
\* started and every fire made burns one
logs_left == MaxCalls - (fires_made - hist.start_fires)

\* run()'s argument: None for the whole inventory, or a number of fires
\* (--test is 1)
NumFiresArgs == {None} \cup {Some(n) : n \in 0..MaxNumFires}

\* no_logs with the test widened to "logs_count <= 0"
no_logs_nonpositive(count) == count <= 0

\* burn_inventory's test "logs_count == 0" (line 106)
no_logs(count) == count = 0

\* retries_exhausted with ">" for ">="
retries_exhausted_late(f) == f > MAX_RETRIES

\* burn_inventory's test "self.failures >= config.MAX_RETRIES" (line 117)
retries_exhausted(f) == f >= MAX_RETRIES

\* failures_after without the reset of line 126
failures_after_no_reset(ok, f) == f

\* self.failures when burn_inventory has handled an outcome: kept after a
\* failure (line 123), reset after a success (line 126)
failures_after(ok, f) == IF ok THEN 0 ELSE f

\* next_index counting only the fires that were made
next_index_on_success(idx, ok) == IF ok THEN idx + 1 ELSE idx

\* the for loop's index after a pass: range() advances whatever
\* make_one_fire returned (lines 156-161)
next_index(idx, ok) == idx + 1

\* a cancellation has arrived in this run
Cancelled == hist.stop_at # "none" \/ hist.interrupt_at # "none"

\* FiremakingAgent.initialize: the window manager is ready and a test
\* screenshot can be taken
initialize(cfg, grab_ok) == is_ready(cfg) /\ capture(cfg, grab_ok)

\* FiremakingAgent.run, up to the loop (lines 144-151)
run(n) ==
    /\ pc = "idle"
    /\ hist.runs < run_limit
    /\ num_fires' = n
    /\ i' = 0
    /\ logs_count' = None
    /\ \E grab_ok \in BOOLEAN :
         IF initialize(window_config, grab_ok)
         THEN /\ running' = TRUE
              /\ pc' = IF n.none THEN "burn_loop" ELSE "for_loop"
              /\ hist' = NewHist(hist.runs + 1, TRUE)
         ELSE /\ hist' = NewHist(hist.runs + 1, FALSE)
              /\ UNCHANGED <<running, pc>>
    /\ trace' = <<>>
    /\ UNCHANGED <<fires_made, failures, slot1, slot2, success>>
    /\ UNCHANGED <<wm_vars, skill_vars, helper_vars, run_limit>>

\* FiremakingAgent.burn_inventory: the while test, the count and the
\* exit on zero (lines 102-113)
burn_loop ==
    /\ pc = "burn_loop"
    /\ IF ~running
       THEN /\ pc' = "finally"
            /\ hist' = [hist EXCEPT !.stop_reason = "cancelled"]
            /\ UNCHANGED <<logs_count, trace>>
       ELSE \E grab_ok \in BOOLEAN, answer \in CountAnswers(logs_left) :
              LET count == count_logs_in_inventory(
                               capture(window_config, grab_ok),
                               analyze_screenshot(client, answer))
              IN /\ logs_count' = Some(count)
                 /\ IF no_logs(count)
                    THEN /\ pc' = "finally"
                         /\ hist' = [hist EXCEPT
                                !.queries = @ + 1,
                                !.counts_true = @ /\ count = logs_left,
                                !.stop_reason = "exhausted"]
                         /\ UNCHANGED trace
                    ELSE /\ hist.capped => hist.calls < MaxCalls
                         /\ pc' = "find1"
                         /\ trace' = <<>>
                         /\ hist' = [hist EXCEPT
                                !.queries = count_up(@),
                                !.counts_true = @ /\ count = logs_left,
                                !.calls = count_up(@),
                                !.late_calls = IF Cancelled THEN count_up(@)
                                                            ELSE @]
    /\ UNCHANGED <<running, fires_made, failures, num_fires, i, slot1, slot2,
                   success>>
    /\ UNCHANGED <<wm_vars, skill_vars, helper_vars, run_limit>>

\* FiremakingAgent.run: the for loop's test and the running test
\* (lines 156-161)
for_loop ==
    /\ pc = "for_loop"
    /\ IF i >= num_fires.val
       THEN /\ pc' = "finally"
            /\ hist' = [hist EXCEPT !.stop_reason = "count_reached"]
            /\ UNCHANGED trace
       ELSE IF ~running
       THEN /\ pc' = "finally"
            /\ hist' = [hist EXCEPT !.stop_reason = "cancelled"]
            /\ UNCHANGED trace
       ELSE /\ hist.calls < MaxCalls
            /\ pc' = "find1"
            /\ trace' = <<>>
            /\ hist' = [hist EXCEPT
                   !.calls = @ + 1,
                   !.late_calls = IF Cancelled THEN @ + 1 ELSE @]
    /\ UNCHANGED <<running, fires_made, failures, num_fires, i, logs_count,
                   slot1, slot2, success>>
    /\ UNCHANGED <<wm_vars, skill_vars, helper_vars, run_limit>>

\* an entry of the trace: a call that reached a collaborator, and for a
\* verification what the provider layer returned
Event(op, arg) == [op |-> op, arg |-> arg]

\* find_events with the perception ahead of the capture
find_events_reversed(shot) ==
    IF shot THEN <<Event("perceive", None), Event("capture", None)>>
    ELSE <<Event("capture", None)>>

\* what one find_item_visual call adds to the trace
find_events(shot) ==
    IF shot THEN <<Event("capture", None), Event("perceive", None)>>
    ELSE <<Event("capture", None)>>

\* the slot test of use_item_on_item looking at the first slot only
first_found(s1, s2) == ~s1.none

\* the slot test of SkillLibrary.use_item_on_item (line 135), negated
both_found(s1, s2) == ~(s1.none \/ s2.none)

\* SkillLibrary.use_item_on_item: slot1 = find_item_visual(item1) (line 132)
find1 ==
    /\ pc = "find1"
    /\ \E grab_ok \in BOOLEAN, answer \in TinderboxAnswers :
         LET shot == capture(window_config, grab_ok) IN
         /\ slot1' = find_item_visual(TINDERBOX, shot,
                                      analyze_screenshot(client, answer))
         /\ trace' = trace \o find_events(shot)
    /\ pc' = "find2"
    /\ UNCHANGED <<running, fires_made, failures, num_fires, i, logs_count,
                   slot2, success, hist>>
    /\ UNCHANGED <<wm_vars, skill_vars, helper_vars, run_limit>>

\* SkillLibrary.use_item_on_item: slot2 = find_item_visual(item2) and the
\* test of both slots (lines 133-137); on failure make_fire returns False
\* (lines 159-160)
find2 ==
    /\ pc = "find2"
    /\ \E grab_ok \in BOOLEAN, answer \in LogsAnswers :
         LET shot == capture(window_config, grab_ok)
             found == find_item_visual(LOGS, shot,
                                       analyze_screenshot(client, answer))
         IN /\ slot2' = found
            /\ trace' = trace \o find_events(shot)
            /\ IF both_found(slot1, found)
               THEN /\ pc' = "click1"
                    /\ UNCHANGED success
               ELSE /\ success' = Some(FALSE)
                    /\ pc' = "tally"
    /\ UNCHANGED <<running, fires_made, failures, num_fires, i, logs_count,
                   slot1, hist>>
    /\ UNCHANGED <<wm_vars, skill_vars, helper_vars, run_limit>>

\* what one click_inventory_slot call adds to the trace
click_events(name, click) ==
    IF click.issued THEN <<Event(name, None)>> ELSE <<>>

\* SkillLibrary.use_item_on_item: click the first item, wait (lines 140-141)
click1 ==
    /\ pc = "click1"
    /\ trace' = trace \o click_events("click_item1",
                    click_inventory_slot(inventory_start_x, inventory_start_y,
                                         window_config, slot1.val))
    /\ pc' = "click2"
    /\ UNCHANGED <<running, fires_made, failures, num_fires, i, logs_count,
                   slot1, slot2, success, hist>>
    /\ UNCHANGED <<wm_vars, skill_vars, helper_vars, run_limit>>

\* SkillLibrary.use_item_on_item: click the second item, wait, return True
\* (lines 144-147); make_fire then waits for the fire (line 163)
click2 ==
    /\ pc = "click2"
    /\ trace' = trace \o click_events("click_item2",
                    click_inventory_slot(inventory_start_x, inventory_start_y,
                                         window_config, slot2.val))
    /\ pc' = "verify"
    /\ UNCHANGED <<running, fires_made, failures, num_fires, i, logs_count,
                   slot1, slot2, success, hist>>
    /\ UNCHANGED <<wm_vars, skill_vars, helper_vars, run_limit>>

\* what the verification of make_fire adds to the trace
verify_events(shot, response) ==
    IF shot
    THEN <<Event("capture", None), Event("verify_fire_made", response)>>
    ELSE <<Event("capture", None)>>

\* SkillLibrary.make_fire: capture and verify (lines 166-176)
verify ==
    /\ pc = "verify"
    /\ \E grab_ok \in BOOLEAN, answer \in VerifyAnswers :
         LET shot == capture(window_config, grab_ok)
             response == analyze_screenshot(client, answer)
         IN /\ success' = Some(IF shot THEN verify_fire_made(response)
                                       ELSE FALSE)
            /\ trace' = trace \o verify_events(shot, response)
    /\ pc' = "tally"
    /\ UNCHANGED <<running, fires_made, failures, num_fires, i, logs_count,
                   slot1, slot2, hist>>
    /\ UNCHANGED <<wm_vars, skill_vars, helper_vars, run_limit>>

\* FiremakingAgent.make_one_fire: count the outcome (lines 72-84); the
\* locals of the finished make_fire() are gone
tally ==
    /\ pc = "tally"
    /\ IF success.val
       THEN /\ fires_made' = count_up(fires_made)
            /\ hist' = [hist EXCEPT !.tallies = count_up(@), !.consec = 0]
            /\ UNCHANGED failures
       ELSE /\ failures' = failures + 1
            /\ hist' = [hist EXCEPT !.tallies = count_up(@),
                                    !.consec = count_up(@)]
            /\ UNCHANGED fires_made
    /\ slot1' = None
    /\ slot2' = None
    /\ trace' = <<>>
    /\ pc' = IF num_fires.none THEN "burn_after" ELSE "for_after"
    /\ UNCHANGED <<running, num_fires, i, logs_count, success>>
    /\ UNCHANGED <<wm_vars, skill_vars, helper_vars, run_limit>>

\* FiremakingAgent.burn_inventory: the retry test and the reset
\* (lines 115-129)
burn_after ==
    /\ pc = "burn_after"
    /\ failures' = failures_after(success.val, failures)
    /\ IF ~success.val /\ retries_exhausted(failures)
       THEN /\ pc' = "finally"
            /\ hist' = [hist EXCEPT !.stop_reason = "budget"]
       ELSE /\ pc' = "burn_loop"
            /\ UNCHANGED hist
    /\ success' = None
    /\ UNCHANGED <<running, fires_made, num_fires, i, logs_count, slot1, slot2,
                   trace>>
    /\ UNCHANGED <<wm_vars, skill_vars, helper_vars, run_limit>>

\* FiremakingAgent.run: the end of one pass of the for loop (line 161: the
\* value make_one_fire returned is dropped)
for_after ==
    /\ pc = "for_after"
    /\ i' = next_index(i, success.val)
    /\ pc' = "for_loop"
    /\ success' = None
    /\ UNCHANGED <<running, fires_made, failures, num_fires, logs_count,
                   slot1, slot2, trace, hist>>
    /\ UNCHANGED <<wm_vars, skill_vars, helper_vars, run_limit>>

\* FiremakingAgent.run: the finally clause (lines 167-169)
finally ==
    /\ pc = "finally"
    /\ running' = FALSE
    /\ pc' = "idle"
    /\ UNCHANGED <<fires_made, failures, num_fires, i, logs_count, slot1, slot2,
                   success, trace, hist>>
    /\ UNCHANGED <<wm_vars, skill_vars, helper_vars, run_limit>>

\* FiremakingAgent.stop, called while a run is in progress (lines 171-174)
stop ==
    /\ pc \notin {"idle", "finally"}
    /\ hist.stop_at = "none"
    /\ running' = FALSE
    /\ hist' = [hist EXCEPT !.stop_at = Moment(pc)]
    /\ UNCHANGED <<fires_made, failures, pc, num_fires, i, logs_count, slot1,
                   slot2, success, trace>>
    /\ UNCHANGED <<wm_vars, skill_vars, helper_vars, run_limit>>

\* A KeyboardInterrupt raised inside run()'s try block: no handler below
\* run() catches it (they catch Exception), so control leaves every frame
\* and reaches "except KeyboardInterrupt" (lines 163-164), then finally
KeyboardInterrupt ==
    /\ pc \notin {"idle", "finally"}
    /\ pc' = "finally"
    /\ hist' = [hist EXCEPT !.interrupt_at = Moment(pc),
                            !.stop_reason = "interrupted"]
    /\ slot1' = None
    /\ slot2' = None
    /\ success' = None
    /\ trace' = <<>>
    /\ UNCHANGED <<running, fires_made, failures, num_fires, i, logs_count>>
    /\ UNCHANGED <<wm_vars, skill_vars, helper_vars, run_limit>>

(***************************************************************************)
(* The agent's specification.                                              *)
(***************************************************************************)
RuneLiteWindow ==
    [title |-> <<"R","u","n","e","L","i","t","e"," ","-"," ","B","o","b">>, coords_x |-> 0 - 2, coords_y |-> 0 - 24,
     width |-> 765, height |-> 503, geo_ok |-> TRUE]

SavedRegion == Region(100, 50, 800, 600, GAME_NAME)

\* the state after the modules are imported and FiremakingAgent() is
\* constructed (lines 22-25); the caller will call run() `limit` times
Start(limit) ==
    /\ \E file \in {FileAbsent, FileOf(json_dump(SavedRegion))},
          ws \in {<<>>, <<RuneLiteWindow>>} :
         LET made == load_or_detect(file, ws) IN
         /\ window_config = made.window_config
         /\ config_file = made.config_file
         /\ detections = made.detections
         /\ windows = ws
         /\ persisted = IF made.detections = 0
                         THEN Persisted(None, None, None)
                         ELSE Persisted(made.window_config, None, None)
    /\ map_call = None
    /\ client \in BOOLEAN
    /\ \E origin \in {None, Some(560)} :
         /\ inventory_start_x = origin
         /\ inventory_start_y = origin
    /\ running = FALSE
    /\ fires_made = 0
    /\ failures = 0
    /\ pc = "idle"
    /\ num_fires = None
    /\ i = 0
    /\ logs_count = None
    /\ slot1 = None
    /\ slot2 = None
    /\ success = None
    /\ trace = <<>>
    /\ run_limit = limit
    /\ hist = NewHist(0, FALSE)
    /\ helper_call = None

\* main() constructs one agent and calls run() once (lines 197-205)
Init == Start(1)

Next ==
    \/ \E n \in NumFiresArgs : run(n)
    \/ burn_loop
    \/ for_loop
    \/ find1
    \/ find2
    \/ click1
    \/ click2
    \/ verify
    \/ tally
    \/ burn_after
    \/ for_after
    \/ finally
    \/ stop
    \/ KeyboardInterrupt

Spec == Init /\ [][Next]_vars

\* a caller that calls run() again on the same instance
InitRerun == Start(MaxRuns)
SpecRerun == InitRerun /\ [][Next]_vars

(***************************************************************************)
(* A drain-all run followed without end: the state when run() has passed   *)
(* initialize() (lines 144-151) and burn_inventory starts, then the loop.  *)
(* Every call of a collaborator returns: the agent's own steps are fair.   *)
(* stop() and the KeyboardInterrupt may come or not.                       *)
(***************************************************************************)
InitLive ==
    /\ window_config = SavedRegion
    /\ config_file = FileOf(json_dump(SavedRegion))
    /\ detections = 0
    /\ windows = <<>>
    /\ persisted = Persisted(None, None, None)
    /\ map_call = None
    /\ client \in BOOLEAN
    /\ \E origin \in {None, Some(560)} :
         /\ inventory_start_x = origin
         /\ inventory_start_y = origin
    /\ running = TRUE
    /\ fires_made = 0
    /\ failures = 0
    /\ pc = "burn_loop"
    /\ num_fires = None
    /\ i = 0
    /\ logs_count = None
    /\ slot1 = None
    /\ slot2 = None
    /\ success = None
    /\ trace = <<>>
    /\ run_limit = 1
    /\ hist = [NewHist(1, TRUE) EXCEPT !.capped = FALSE]
    /\ helper_call = None

\* the steps of burn_inventory and of what it calls
AgentStep ==
    \/ burn_loop
    \/ find1
    \/ find2
    \/ click1
    \/ click2
    \/ verify
    \/ tally
    \/ burn_after
    \/ finally

NextLive ==
    \/ AgentStep
    \/ stop
    \/ KeyboardInterrupt

SpecLive == InitLive /\ [][NextLive]_vars /\ WF_vars(AgentStep)


(***************************************************************************)
(* The window manager on its own: construction from what is on disk and    *)
(* on screen, refresh(), and calls of get_absolute_coords.                 *)
(***************************************************************************)
LauncherWindow ==
    [title |-> <<"r","u","n","e","l","i","t","e"," ","l","a","u","n","c","h","e","r">>, coords_x |-> 40, coords_y |-> 30,
     width |-> 300, height |-> 200, geo_ok |-> TRUE]
BrowserWindow ==
    [title |-> <<"F","i","r","e","f","o","x">>, coords_x |-> 0, coords_y |-> 0,
     width |-> 1920, height |-> 1080, geo_ok |-> TRUE]
IconifiedWindow ==
    [title |-> <<"R","u","n","e","L","i","t","e">>, coords_x |-> 0, coords_y |-> 0,
     width |-> 0, height |-> 503, geo_ok |-> TRUE]

\* a client whose title holds quotes and a backslash
QuotedWindow ==
    [title |-> <<"R","u","n","e","L","i","t","e"," ","\"","a","\\","b","\"">>,
     coords_x |-> 0 - 4, coords_y |-> 0, width |-> 765, height |-> 503,
     geo_ok |-> TRUE]

\* a saved region that lies partly off the screen, with a tab in its title
OffscreenRegion ==
    Region(0 - 15, 0 - 7, 800, 600, <<"R","u","n","e","L","i","t","e","\t","2">>)

\* what may be on screen
Screens ==
    {<<>>, <<RuneLiteWindow>>, <<BrowserWindow>>, <<IconifiedWindow>>,
     <<QuotedWindow>>,
     <<BrowserWindow, LauncherWindow, RuneLiteWindow>>}

\* what may be on disk when the process starts: no file, a file that does
\* not parse, a record written by an earlier run, records with an empty size
SavedFiles ==
    {FileAbsent, FileCorrupt, FileOf(json_dump(SavedRegion)),
     FileOf(json_dump(Region(100, 50, 0, 600, GAME_NAME))),
     FileOf(json_dump(Region(100, 50, 800, 0, GAME_NAME))),
     FileOf(json_dump(OffscreenRegion))}

\* the relative coordinates tried against a region: around the origin,
\* and just past the far edge
RelativeInputs(cfg, far) ==
    (0 - MaxRel)..MaxRel \cup (IF cfg.none THEN {} ELSE {far + MaxRel})

\* WindowManager.__init__ (lines 17-20)
InitWM ==
    /\ \E file \in SavedFiles, ws \in Screens :
         LET made == load_or_detect(file, ws) IN
         /\ window_config = made.window_config
         /\ config_file = made.config_file
         /\ detections = made.detections
         /\ windows = ws
         /\ persisted = IF made.detections = 0
                         THEN Persisted(None, None, None)
                         ELSE Persisted(made.window_config, None, None)
         /\ helper_call = LocatorCall("load_or_detect", file, ws, made)
    /\ map_call = None
    /\ client = TRUE
    /\ inventory_start_x = None
    /\ inventory_start_y = None
    /\ running = FALSE
    /\ fires_made = 0
    /\ failures = 0
    /\ pc = "idle"
    /\ num_fires = None
    /\ i = 0
    /\ logs_count = None
    /\ slot1 = None
    /\ slot2 = None
    /\ success = None
    /\ trace = <<>>
    /\ run_limit = 0
    /\ hist = NewHist(0, FALSE)

\* a call of WindowManager.get_absolute_coords (lines 180-188)
call_get_absolute_coords ==
    \E dx \in RelativeInputs(window_config, window_config.width),
       dy \in RelativeInputs(window_config, window_config.height) :
        /\ map_call' = Some([cfg |-> window_config, dx |-> dx, dy |-> dy,
                             result |-> get_absolute_coords(window_config,
                                                            dx, dy)])
        /\ helper_call' = None
        /\ UNCHANGED <<window_config, config_file, windows, detections,
                       persisted>>
        /\ UNCHANGED <<skill_vars, agent_vars>>

\* WindowManager.refresh (lines 156-165)
refresh ==
    /\ detections < MaxDetections
    /\ LET found == find_runelite_window(windows) IN
       /\ window_config' = found
       /\ config_file' = save_config(found, config_file)
       /\ persisted' = Persisted(found, persisted.saved, None)
       /\ helper_call' = LocatorCall("refresh", config_file, windows,
                              [window_config |-> found,
                               config_file |-> save_config(found, config_file),
                               detections |-> 1])
    /\ detections' = detections + 1
    /\ UNCHANGED <<windows, map_call>>
    /\ UNCHANGED <<skill_vars, agent_vars>>

\* the user opens, closes, moves or resizes windows
screen_changes ==
    /\ \E ws \in Screens : windows' = ws
    /\ helper_call' = None
    /\ UNCHANGED <<window_config, config_file, detections, map_call,
                   persisted>>
    /\ UNCHANGED <<skill_vars, agent_vars>>

\* a call of WindowManager.save_config (lines 149-154)
call_save_config ==
    /\ config_file' = save_config(window_config, config_file)
    /\ persisted' = Persisted(window_config, persisted.saved, persisted.prior)
    /\ helper_call' = None
    /\ UNCHANGED <<window_config, windows, detections, map_call>>
    /\ UNCHANGED <<skill_vars, agent_vars>>

\* the process ends and a new WindowManager() is constructed from what is
\* then on disk and on screen (lines 17-20)
new_locator ==
    /\ LET made == load_or_detect(config_file, windows) IN
       /\ window_config' = made.window_config
       /\ config_file' = made.config_file
       /\ detections' = made.detections
       /\ persisted' = IF made.detections = 0
                         THEN Persisted(None, persisted.saved, persisted.saved)
                         ELSE Persisted(made.window_config, persisted.saved,
                                        persisted.saved)
       /\ helper_call' = LocatorCall("load_or_detect", config_file, windows,
                                     made)
    /\ map_call' = None
    /\ UNCHANGED windows
    /\ UNCHANGED <<skill_vars, agent_vars>>

NextWM ==
    \/ call_get_absolute_coords
    \/ refresh
    \/ screen_changes
    \/ call_save_config
    \/ new_locator

SpecWM == InitWM /\ [][NextWM]_vars


(***************************************************************************)
(* The helpers on their own: a behaviour is one call of one helper on a    *)
(* constructed agent, with what the screen and the provider then answer.   *)
(***************************************************************************)
\* the agent as constructed, before any run()
InitHelpers ==
    /\ \E cfg \in {None, SavedRegion} :
         /\ window_config = cfg
         /\ config_file = save_config(cfg, FileAbsent)
         /\ persisted = Persisted(cfg, None, None)
         /\ detections = IF cfg.none THEN 1 ELSE 0
    /\ windows = <<>>
    /\ map_call = None
    /\ client \in BOOLEAN
    /\ \E calibrated \in BOOLEAN :
         /\ inventory_start_x = IF calibrated THEN Some(560) ELSE None
         /\ inventory_start_y = IF calibrated THEN Some(210) ELSE None
    /\ running = FALSE
    /\ fires_made = 0
    /\ failures = 0
    /\ pc = "idle"
    /\ num_fires = None
    /\ i = 0
    /\ logs_count = None
    /\ slot1 = None
    /\ slot2 = None
    /\ success = None
    /\ trace = <<>>
    /\ run_limit = 0
    /\ hist = NewHist(0, FALSE)
    /\ helper_call = None

\* a call of ActionExecutor._randomize_point (lines 25-29)
call__randomize_point ==
    /\ helper_call.none
    /\ \E x \in (0 - MaxRel)..MaxRel, y \in (0 - MaxRel)..MaxRel,
          radius \in 0..MaxRadius :
         \E point \in _randomize_point(x, y, radius) :
             helper_call' = HelperCall("_randomize_point",
                                       [x |-> x, y |-> y, radius |-> radius],
                                       point)
    /\ UNCHANGED <<wm_vars, skill_vars, agent_vars>>

\* a call of SkillLibrary.get_slot_center (lines 33-54)
call_get_slot_center ==
    /\ helper_call.none
    /\ \E slot \in 0..LastSlot :
         helper_call' = HelperCall("get_slot_center",
                                   [start_x |-> inventory_start_x,
                                    start_y |-> inventory_start_y,
                                    slot |-> slot],
                                   get_slot_center(inventory_start_x,
                                                   inventory_start_y, slot))
    /\ UNCHANGED <<wm_vars, skill_vars, agent_vars>>

\* the item names find_item_visual is called with: the two of make_fire,
\* another kind of logs, and an item with no prompt of its own
ItemNames ==
    {TINDERBOX, LOGS, <<"O","a","k"," ","l","o","g","s">>, <<"a","x","e">>}

\* what the provider may answer when asked for a slot or a count
NumberAnswers ==
    {None, Some(<<>>), Some(<<"7">>), Some(<<" ","7","\n">>), Some(<<"0">>),
     Some(<<"2","7">>), Some(<<"2","8">>), Some(<<"1","0","0">>),
     Some(<<"-","1">>), Some(<<"-","5">>), Some(<<"a","b","c">>),
     Some(<<"s","l","o","t"," ","7">>), Some(<<"7",".","0">>)}

\* a call of SkillLibrary.find_item_visual (lines 75-116)
call_find_item_visual ==
    /\ helper_call.none
    /\ \E item_name \in ItemNames, grab_ok \in BOOLEAN, answer \in NumberAnswers :
         LET shot == capture(window_config, grab_ok)
             response == analyze_screenshot(client, answer)
         IN helper_call' = HelperCall("find_item_visual",
                                      [item_name |-> item_name, shot |-> shot,
                                       available |-> client, answer |-> answer],
                                      find_item_visual(item_name, shot, response))
    /\ UNCHANGED <<wm_vars, skill_vars, agent_vars>>

\* a call of SkillLibrary.count_logs_in_inventory (lines 197-220)
call_count_logs_in_inventory ==
    /\ helper_call.none
    /\ \E grab_ok \in BOOLEAN, answer \in NumberAnswers :
         LET shot == capture(window_config, grab_ok)
             response == analyze_screenshot(client, answer)
         IN helper_call' = HelperCall("count_logs_in_inventory",
                                      [shot |-> shot, available |-> client,
                                       answer |-> answer],
                                      count_logs_in_inventory(shot, response))
    /\ UNCHANGED <<wm_vars, skill_vars, agent_vars>>

\* the names of the skill operations
SkillOperations ==
    {"find_item_visual", "click_inventory_slot", "use_item_on_item",
     "make_fire", "count_logs_in_inventory"}

\* what the provider may answer to a skill operation's question
SkillAnswers ==
    {None, Some(<<>>), Some(<<"3">>), Some(<<"-","1">>), Some(<<"a","b","c">>)}

\* a call of one skill operation by FiremakingAgent or another caller:
\* grab1, grab2, grab3 are whether the captures succeed, answer1, answer2
\* what the provider answers to the locating or counting questions, verdict
\* what it answers to the verification
call_skill_operation ==
    /\ helper_call.none
    /\ \E op \in SkillOperations, item_name \in ItemNames,
          grab1 \in BOOLEAN, grab2 \in BOOLEAN, grab3 \in BOOLEAN,
          answer1 \in SkillAnswers, answer2 \in SkillAnswers,
          verdict \in VerifyAnswers, gui_ok \in BOOLEAN :
         LET shot1 == capture(window_config, grab1)
             shot2 == capture(window_config, grab2)
             shot3 == capture(window_config, grab3)
             response1 == analyze_screenshot(client, answer1)
             response2 == analyze_screenshot(client, answer2)
             found1 == find_item_visual_outcome(TINDERBOX, shot1, response1)
             found2 == find_item_visual_outcome(LOGS, shot2, response2)
             used == use_item_on_item_outcome(found1, found2,
                         inventory_start_x, inventory_start_y,
                         window_config, gui_ok)
             located == ~found1.raised /\ ~found2.raised
                        /\ ~found1.value.none /\ ~found2.value.none
             result ==
                 IF op = "find_item_visual"
                 THEN find_item_visual_outcome(item_name, shot1, response1)
                 ELSE IF op = "click_inventory_slot"
                 THEN click_inventory_slot_outcome(inventory_start_x,
                          inventory_start_y, window_config, 3, gui_ok)
                 ELSE IF op = "use_item_on_item" THEN used
                 ELSE IF op = "make_fire"
                 THEN make_fire_outcome(used, shot3,
                          analyze_screenshot(client, verdict))
                 ELSE count_logs_in_inventory_outcome(shot1, response1)
         IN helper_call' = HelperCall("skill_operation",
                                      [op |-> op, located |-> located],
                                      result)
    /\ UNCHANGED <<wm_vars, skill_vars, agent_vars>>

\* a client whose geometry cannot be read (the X calls raise)
UnreadableWindow ==
    [title |-> <<"R","u","n","e","L","i","t","e">>, coords_x |-> 0,
     coords_y |-> 0, width |-> 1000, height |-> 900, geo_ok |-> FALSE]

\* a window without a name
UnnamedWindow ==
    [title |-> <<>>, coords_x |-> 0, coords_y |-> 0,
     width |-> 1280, height |-> 1024, geo_ok |-> TRUE]

\* a second client of the same size as RuneLiteWindow, elsewhere
TwinWindow ==
    [title |-> <<"R","U","N","E","L","I","T","E">>, coords_x |-> 0 - 9,
     coords_y |-> 0 - 9, width |-> 503, height |-> 765, geo_ok |-> TRUE]

WindowPool ==
    {RuneLiteWindow, LauncherWindow, BrowserWindow, IconifiedWindow,
     UnreadableWindow, UnnamedWindow, TwinWindow}

\* the window trees of at most MaxWindows windows
WindowTrees ==
    UNION {[1..n -> WindowPool] : n \in 0..MaxWindows}

\* a call of WindowManager.find_runelite_window (lines 88-125) on the
\* window tree `ws`
call_find_runelite_window ==
    /\ helper_call.none
    /\ \E ws \in WindowTrees :
         helper_call' = HelperCall("find_runelite_window", [windows |-> ws],
                                   find_runelite_window(ws))
    /\ UNCHANGED <<wm_vars, skill_vars, agent_vars>>

NextHelpers ==
    \/ call__randomize_point
    \/ call_find_runelite_window
    \/ call_skill_operation
    \/ call_find_item_visual
    \/ call_count_logs_in_inventory
    \/ call_get_slot_center

SpecHelpers == InitHelpers /\ [][NextHelpers]_vars


(***************************************************************************)
(* Properties.                                                             *)
(***************************************************************************)
\* the run in progress, or the last one, burns the whole inventory
DrainAll == hist.entered /\ num_fires.none
\* ... makes a fixed number of fires
FixedCount == hist.entered /\ ~num_fires.none
\* run() has returned
Stopped == hist.runs > 0 /\ pc = "idle"
\* the fires made in this run
fires_this_run == fires_made - hist.start_fires

\* C1: in a drain-all run that starts with failures = 0, once MAX_RETRIES
\* (3) make_fire() invocations in a row have failed, failures is 3, no
\* further invocation is started (the loop is at its retry test or has
\* left), and the loop leaves through the retry-budget exit unless a
\* KeyboardInterrupt takes it out first.
C1_RetryBudgetStops ==
    (DrainAll /\ hist.start_failures = 0 /\ hist.consec >= MAX_RETRIES)
    => /\ hist.consec = MAX_RETRIES
       /\ failures = MAX_RETRIES
       /\ pc \in {"burn_after", "finally", "idle"}
       /\ pc \in {"finally", "idle"}
              => hist.stop_reason \in {"budget", "interrupted"}

\* three failures and nothing else: the run stopped on its third invocation
C1_Witness ==
    /\ DrainAll /\ Stopped
    /\ hist.stop_reason = "budget"
    /\ hist.calls = 3 /\ hist.tallies = 3 /\ fires_this_run = 0
    /\ failures = 3
    /\ ~logs_count.none /\ logs_count.val # 0

C3_DrainUntilZero ==
    DrainAll =>
      /\ pc \in InFlight
            => /\ ~logs_count.none /\ logs_count.val # 0
               /\ hist.queries = hist.calls
      /\ (Stopped /\ hist.stop_reason = "exhausted")
            => /\ logs_count = Some(0)
               /\ hist.queries = hist.calls + 1
               /\ hist.tallies = hist.calls
      /\ (Stopped /\ ~Cancelled /\ fires_this_run = hist.tallies)
            => /\ hist.stop_reason = "exhausted"
               /\ fires_this_run = hist.calls

\* the counts were 5, 4, 3, 2, 1, 0 and every invocation succeeded
C3_Witness ==
    /\ DrainAll /\ Stopped /\ ~Cancelled
    /\ hist.counts_true
    /\ hist.queries = 6 /\ hist.calls = 5
    /\ fires_this_run = 5
    /\ logs_count = Some(0)
    /\ hist.stop_reason = "exhausted"

\* C4 (as claimed): in every run mode, when the last make_fire() succeeded,
\* failures is 0 when the next invocation starts and when the run has
\* stopped (runs without a KeyboardInterrupt).
C4_Claim ==
    (hist.entered /\ hist.interrupt_at = "none"
       /\ hist.tallies > 0 /\ hist.consec = 0
       /\ (pc = "find1" \/ Stopped))
    => failures = 0

\* C5 (as claimed): in every run mode failures never exceeds MAX_RETRIES
\* and no make_fire() invocation is in flight with failures >= MAX_RETRIES.
C5_Claim ==
    /\ failures <= MAX_RETRIES
    /\ (pc \in InFlight /\ pc # "tally") => failures < MAX_RETRIES

\* C6 (as claimed): every run() that enters Running starts with
\* fires_made = 0 and failures = 0, a second run() on the same instance
\* included.
C6_Claim ==
    hist.entered => (hist.start_fires = 0 /\ hist.start_failures = 0)

\* C7: a run with a fixed count N that has entered Running never counts
\* the logs, never starts more than N invocations, and, unless it was
\* cancelled, has made exactly N invocations, successful or not, when it
\* has stopped.
C7_FixedCountExact ==
    FixedCount =>
      /\ hist.queries = 0
      /\ logs_count.none
      /\ hist.calls <= num_fires.val
      /\ (Stopped /\ ~Cancelled)
            => /\ hist.calls = num_fires.val
               /\ hist.tallies = num_fires.val
               /\ hist.stop_reason = "count_reached"

\* a fixed-count run in which invocations failed and still all were made
C7_Witness ==
    /\ FixedCount /\ Stopped /\ ~Cancelled
    /\ num_fires.val = 3
    /\ hist.calls = 3
    /\ failures = 2 /\ fires_this_run = 1

\* C8 (as claimed): when a cancellation (stop() or a KeyboardInterrupt)
\* arrived while a make_fire() was in flight, that invocation was carried
\* through to the counting of its outcome, no invocation was started
\* afterwards, and the run ends with running = FALSE.
C8_Claim ==
    (hist.entered /\ Stopped
       /\ (hist.stop_at = "in_flight" \/ hist.interrupt_at = "in_flight"))
    => /\ hist.tallies = hist.calls
       /\ hist.late_calls = 0
       /\ running = FALSE

\* C9: every call get_absolute_coords(dx, dy) against a ready region R
\* returned exactly (R.x + dx, R.y + dy), also for negative dx, dy and for
\* points past the region's far edge; against no region it raised.
C9_AbsoluteIsOriginPlusRelative ==
    ~map_call.none =>
        LET c == map_call.val IN
        IF is_ready(c.cfg)
        THEN c.result = Coord(c.cfg.x + c.dx, c.cfg.y + c.dy)
        ELSE c.result.raised

\* a point left of the region and below its bottom edge was mapped
C9_Witness ==
    /\ ~map_call.none
    /\ is_ready(map_call.val.cfg)
    /\ map_call.val.cfg.width > 0
    /\ map_call.val.dx < 0
    /\ map_call.val.dy > map_call.val.cfg.height
    /\ map_call.val.result.x < map_call.val.cfg.x
    /\ map_call.val.result.y > map_call.val.cfg.y + map_call.val.cfg.height

\* C10 (as claimed): while the region held has width <= 0 or height <= 0,
\* is_ready() is false and a coordinate mapping against it raises.
C10_Claim ==
    (~window_config.none
       /\ (window_config.width <= 0 \/ window_config.height <= 0))
    => /\ ~is_ready(window_config)
       /\ (~map_call.none /\ map_call.val.cfg = window_config)
              => map_call.val.result.raised

\* C11: whenever a locator is constructed after save_config wrote a Region,
\* its window_config equals that Region in x, y, width, height and title,
\* and its construction ran no window detection.
C11_SaveLoadRoundTrip ==
    ~persisted.prior.none =>
        /\ ~window_config.none
        /\ window_config.x = persisted.prior.x
        /\ window_config.y = persisted.prior.y
        /\ window_config.width = persisted.prior.width
        /\ window_config.height = persisted.prior.height
        /\ window_config.title = persisted.prior.title
        /\ detections = 0

\* a Region whose title holds a quote was saved and then loaded
C11_Witness ==
    /\ ~persisted.prior.none
    /\ py_contains(<<"\"">>, persisted.prior.title)
    /\ window_config = persisted.prior
    /\ detections = 0

\* C12: every point _randomize_point(x, y, r) returns for r >= 0 lies within
\* r of (x, y) on each axis, and for r = 0 it is (x, y) itself.
C12_JitterWithinRadius ==
    (~helper_call.none /\ helper_call.val.fn = "_randomize_point") =>
        LET a == helper_call.val.args
            q == helper_call.val.result
        IN /\ a.x - a.radius <= q.x /\ q.x <= a.x + a.radius
           /\ a.y - a.radius <= q.y /\ q.y <= a.y + a.radius
           /\ (a.radius = 0 => (q.x = a.x /\ q.y = a.y))

\* a call with a positive radius returned a corner of the square
C12_Witness ==
    /\ ~helper_call.none
    /\ helper_call.val.fn = "_randomize_point"
    /\ helper_call.val.args.radius = MaxRadius
    /\ helper_call.val.result.x = helper_call.val.args.x - MaxRadius
    /\ helper_call.val.result.y = helper_call.val.args.y + MaxRadius

\* C13: on a calibrated grid, get_slot_center(s) for s in 0..27 is the centre
\* of the cell in row s div 4 and column s mod 4 (slot 5: row 1, column 1;
\* slot 0: row 0, column 0), and no other slot has the same centre.
C13_SlotCentre ==
    (/\ ~helper_call.none
     /\ helper_call.val.fn = "get_slot_center"
     /\ ~helper_call.val.args.start_x.none
     /\ ~helper_call.val.args.start_y.none) =>
        LET a == helper_call.val.args
            q == helper_call.val.result
            s == a.slot
        IN /\ ~q.raised
           /\ q.x = a.start_x.val + (s % 4) * 42 + 21
           /\ q.y = a.start_y.val + (s \div 4) * 36 + 18
           /\ (s = 5 => (q.x = a.start_x.val + 63 /\ q.y = a.start_y.val + 54))
           /\ (s = 0 => (q.x = a.start_x.val + 21 /\ q.y = a.start_y.val + 18))
           /\ \A t \in 0..LastSlot :
                  t # s => get_slot_center(a.start_x, a.start_y, t) # q

\* the centre of slot 6 (row 1, column 2) was computed on a calibrated grid
C13_Witness ==
    /\ ~helper_call.none
    /\ helper_call.val.fn = "get_slot_center"
    /\ helper_call.val.args.slot = 6
    /\ ~helper_call.val.result.raised
    /\ helper_call.val.result.x = 560 + 105
    /\ helper_call.val.result.y = 210 + 54

\* a location call for the tinderbox or for logs
LocateCall ==
    /\ ~helper_call.none
    /\ helper_call.val.fn = "find_item_visual"
    /\ helper_call.val.args.item_name \in {TINDERBOX, LOGS}

\* the text the provider answered in the last helper call, if it was asked
\* and answered
Answered(text) ==
    /\ helper_call.val.args.shot
    /\ helper_call.val.args.available
    /\ helper_call.val.args.answer = Some(text)

NoDigit(text) == \A k \in 1..Len(text) : ~IsDigit(text[k])

\* C14: locating the tinderbox or the logs gives None for the answer "-1",
\* for an answer without any digit, for an empty answer, for no answer and
\* for an unavailable provider, and gives 7 for the answer "7"; the call
\* always returns a value.
C14_LocateParsing ==
    LocateCall =>
        LET a == helper_call.val.args
            q == helper_call.val.result
        IN /\ Answered(<<"-","1">>) => q = None
           /\ (a.shot /\ a.available /\ ~a.answer.none /\ NoDigit(a.answer.val))
                  => q = None
           /\ Answered(<<"7">>) => q = Some(7)
           /\ (a.answer.none \/ ~a.available) => q = None
           /\ (q = None \/ (~q.none /\ q.val \in Int))

\* the tinderbox was asked for on a captured frame and the answer was "-1"
C14_Witness ==
    /\ LocateCall
    /\ helper_call.val.args.item_name = TINDERBOX
    /\ Answered(<<"-","1">>)
    /\ helper_call.val.result = None

\* C15: find_item_visual returns None or a slot number in 0..27.
C15_Claim ==
    (~helper_call.none /\ helper_call.val.fn = "find_item_visual") =>
        \/ helper_call.val.result.none
        \/ helper_call.val.result.val \in 0..LastSlot

\* C16: count_logs_in_inventory returns a number that is not negative, and
\* 0 when no frame was captured, the provider is unavailable or silent, or
\* the answer is no number or a negative one.
C16_Claim ==
    (~helper_call.none /\ helper_call.val.fn = "count_logs_in_inventory") =>
        LET a == helper_call.val.args
            q == helper_call.val.result
        IN /\ q >= 0
           /\ (~a.shot \/ ~a.available \/ a.answer.none) => q = 0
           /\ (~a.answer.none /\ NoDigit(a.answer.val)) => q = 0
           /\ (~a.answer.none /\ a.answer.val # <<>> /\ Head(a.answer.val) = "-")
                  => q = 0

\* the positions of the trace at which a click reached the input layer
Clicks == {k \in DOMAIN trace : trace[k].op \in {"click_item1", "click_item2"}}
\* the positions of the trace at which a frame was asked for
Captures == {k \in DOMAIN trace : trace[k].op = "capture"}

\* C17: when use_item_on_item has not found one of the two items, the
\* invocation's outcome is false and its trace holds no click; and every
\* click in a trace comes after both locates, with both slots found.
C17_NoPartialActuation ==
    /\ (pc = "tally" /\ (slot1.none \/ slot2.none)) =>
           (success = Some(FALSE) /\ Clicks = {})
    /\ \A k \in Clicks :
           /\ Cardinality({c \in Captures : c < k}) >= 2
           /\ ~slot1.none
           /\ ~slot2.none

\* the tinderbox was found and the logs were not, on a calibrated grid
\* where a click would have gone through
C17_Witness ==
    /\ pc = "tally"
    /\ ~slot1.none
    /\ slot2.none
    /\ ~inventory_start_x.none
    /\ ~inventory_start_y.none
    /\ success = Some(FALSE)
    /\ Clicks = {}

\* C18: when use_item_on_item has returned True, a click on the first
\* item's slot and then a click on the second item's slot have reached the
\* input layer.
C18_Claim ==
    pc = "verify" =>
        \E j \in Clicks, k \in Clicks :
            /\ j < k
            /\ trace[j].op = "click_item1"
            /\ trace[k].op = "click_item2"

\* the positions of the trace at which the provider layer was asked whether
\* a fire burns
Verifications == {k \in DOMAIN trace : trace[k].op = "verify_fire_made"}

\* the text holds y, e, s in a row, in either case
Affirmative(text) ==
    \E k \in 1..(Len(text) - 2) :
        /\ text[k] \in {"y", "Y"}
        /\ text[k + 1] \in {"e", "E"}
        /\ text[k + 2] \in {"s", "S"}

\* C19: the outcome of make_fire is true exactly when use_item_on_item
\* returned True (both items were found), the frame for the verification was
\* captured, and the response on it holds 'yes' in any case; when
\* use_item_on_item returned False the outcome is false and the trace holds
\* the two locating captures and no verification.
C19_MakeFireOutcome ==
    pc = "tally" =>
        /\ success.val <=>
               /\ ~slot1.none /\ ~slot2.none
               /\ \E k \in Verifications :
                      /\ ~trace[k].arg.none
                      /\ Affirmative(trace[k].arg.val)
        /\ (slot1.none \/ slot2.none) =>
               /\ ~success.val
               /\ Verifications = {}
               /\ Cardinality(Captures) = 2

\* a fire was confirmed by a response that spells the token with a capital
C19_Witness ==
    /\ pc = "tally"
    /\ success = Some(TRUE)
    /\ \E k \in Verifications : trace[k].arg = Some(<<"Y","e","s",".">>)

\* C20: with an uncalibrated grid origin no click reaches the input layer,
\* use_item_on_item does not return True and make_fire does not return True.
C20_Claim ==
    (inventory_start_x.none \/ inventory_start_y.none) =>
        /\ Clicks = {}
        /\ pc # "verify"
        /\ (pc = "tally" => success = Some(FALSE))

\* the last helper call was a skill operation
SkillCall == ~helper_call.none /\ helper_call.val.fn = "skill_operation"

\* no skill operation raises to its caller
SkillsNeverRaise == SkillCall => ~helper_call.val.result.raised

\* C21: no skill operation raises to its caller, and on a region that is
\* not ready or a grid that is not calibrated click_inventory_slot,
\* use_item_on_item and make_fire return False.
C21_Claim ==
    SkillCall =>
        /\ ~helper_call.val.result.raised
        /\ (/\ helper_call.val.args.op \in {"click_inventory_slot",
                                            "use_item_on_item", "make_fire"}
            /\ \/ window_config.none
               \/ inventory_start_x.none
               \/ inventory_start_y.none)
               => helper_call.val.result.value = FALSE

\* the title holds the configured name, letters compared without case
TitleMatches(title) ==
    \E off \in 0..(Len(title) - Len(GAME_NAME)) :
        \A j \in 1..Len(GAME_NAME) :
            lower_char(title[off + j]) = lower_char(GAME_NAME[j])

\* window k of the tree is a valid candidate: its title matches and its
\* geometry was read with a positive width and height
ValidCandidate(ws, k) ==
    /\ TitleMatches(ws[k].title)
    /\ ws[k].geo_ok
    /\ ws[k].width > 0
    /\ ws[k].height > 0

\* C22: find_runelite_window returns None exactly when the tree holds no
\* valid candidate; otherwise it returns the geometry and title of a valid
\* candidate whose area is at least that of every valid candidate.
C22_LargestCandidate ==
    (~helper_call.none /\ helper_call.val.fn = "find_runelite_window") =>
        LET ws == helper_call.val.args.windows
            q == helper_call.val.result
            valid == {k \in 1..Len(ws) : ValidCandidate(ws, k)}
        IN /\ q.none <=> valid = {}
           /\ ~q.none =>
                 \E k \in valid :
                     /\ q.title = ws[k].title
                     /\ q.width = ws[k].width
                     /\ q.height = ws[k].height
                     /\ q.x = _get_window_geometry(ws[k]).x
                     /\ q.y = _get_window_geometry(ws[k]).y
                     /\ \A m \in valid :
                            ws[m].width * ws[m].height
                                <= ws[k].width * ws[k].height

\* the launcher comes first in the tree and the larger client was chosen
C22_Witness ==
    /\ ~helper_call.none
    /\ helper_call.val.fn = "find_runelite_window"
    /\ helper_call.val.args.windows
           = <<UnreadableWindow, LauncherWindow, RuneLiteWindow>>
    /\ helper_call.val.result.title = RuneLiteWindow.title

\* the last operation was a construction or a refresh of the locator
LocatorReturned ==
    /\ ~helper_call.none
    /\ helper_call.val.fn \in {"load_or_detect", "refresh"}

\* the file holds a record that json.load reads
Loadable(file) == file.kind = "json" /\ ~json_load(file.data).none

\* C23: a construction that starts from a loadable record takes it as the
\* Region, runs no detection and leaves the file alone; otherwise it runs
\* one detection.  A detection (at construction or in refresh) that finds a
\* window leaves that Region in the file; one that finds none leaves the
\* file as it was.
C23_CacheFirst ==
    LocatorReturned =>
        LET c == helper_call.val
            before == c.args.file
            found == find_runelite_window(c.args.windows)
            detected == c.fn = "refresh" \/ ~Loadable(before)
        IN /\ window_config = c.result.window_config
           /\ config_file = c.result.config_file
           /\ (c.fn = "load_or_detect" /\ Loadable(before)) =>
                  /\ window_config = json_load(before.data)
                  /\ c.result.detections = 0
                  /\ config_file = before
           /\ detected =>
                  /\ c.result.detections = 1
                  /\ window_config = found
                  /\ ~found.none =>
                         (Loadable(config_file)
                          /\ json_load(config_file.data) = found)
                  /\ found.none => config_file = before

\* a refresh wrote a record, the screen then changed to another window, and
\* a new locator was constructed from the record
C23_Witness ==
    /\ LocatorReturned
    /\ helper_call.val.fn = "load_or_detect"
    /\ Loadable(helper_call.val.args.file)
    /\ ~persisted.prior.none
    /\ ~find_runelite_window(helper_call.val.args.windows).none
    /\ find_runelite_window(helper_call.val.args.windows) # window_config
    /\ window_config = json_load(helper_call.val.args.file.data)
    /\ detections = 0

\* a stopped run has one of the three reasons to show
TerminalReason ==
    Stopped =>
        \/ logs_count = Some(0)
        \/ failures >= MAX_RETRIES
        \/ Cancelled

\* C24: a drain-all run whose collaborator calls all return eventually
\* reaches Stopped, and when it has stopped the last count was zero, or
\* failures is at least MAX_RETRIES, or a cancellation was requested.
C24_Claim == (<>Stopped) /\ []TerminalReason

\* the positions of the trace at which the provider layer was asked to
\* locate an item
Perceptions == {k \in DOMAIN trace : trace[k].op = "perceive"}

\* the operations of the trace, in order
TraceOps == [k \in DOMAIN trace |-> trace[k].op]

\* C25: in the trace of every make_fire invocation each perception call
\* comes right after the capture of its frame; each click comes after the
\* two captures and the two perception calls that located the slots, the
\* first item's click before the second's; and the verification comes
\* after every click, with no click after it.
C25_StepOrder ==
    /\ \A k \in Perceptions \cup Verifications :
           k > 1 /\ trace[k - 1].op = "capture"
    /\ \A k \in Clicks :
           /\ Cardinality({c \in Captures : c < k}) = 2
           /\ Cardinality({q \in Perceptions : q < k}) = 2
           /\ \A v \in Verifications : k < v
           /\ \A c \in Captures : (\E v \in Verifications : v = c + 1) => k < c
    /\ \A j \in Clicks, k \in Clicks :
           (trace[j].op = "click_item1" /\ trace[k].op = "click_item2") => j < k
    /\ Cardinality(Verifications) <= 1
    /\ \A v \in Verifications : v = Len(trace)

\* an invocation went through all its steps: two locates, two clicks, the
\* verification
C25_Witness ==
    /\ pc = "tally"
    /\ TraceOps = <<"capture", "perceive", "capture", "perceive",
                    "click_item1", "click_item2",
                    "capture", "verify_fire_made">>

\* C26: for every item name find_item_visual returns what find_tinderbox
\* returns on the same frame and response, and the answer "0" gives slot 0
\* whatever the item.
C26_Claim ==
    (~helper_call.none /\ helper_call.val.fn = "find_item_visual") =>
        LET a == helper_call.val.args
            q == helper_call.val.result
        IN /\ q = find_item_visual(TINDERBOX, a.shot,
                                   analyze_screenshot(a.available, a.answer))
           /\ Answered(<<"0">>) => q = Some(0)

=============================================================================
